---- MODULE Spec2Model ----
(***************************************************************************)
(* Archery (archery.py): the bow's charge/fire/cooldown/empty state        *)
(* machine, arrow flight and zone scoring against the target, and the      *)
(* context switcher of the main loop.  One step of the model is one        *)
(* iteration of the main loop (one frame).                                 *)
(*                                                                         *)
(* Rendering (images, backgrounds, fonts, the _drawn flags) is left out:   *)
(* it never feeds back into the state modelled here.                       *)
(*                                                                         *)
(* Arithmetic: Bow.force is a float; pygame's Rect.move_ip truncates a     *)
(* float offset to an int.  Speeds are kept in exact units of              *)
(* 1/TIME_FORCE_FPS pixel and truncated when a Rect is moved, which gives  *)
(* the same pixel offsets as the float computation for every accumulation  *)
(* time 0..TIME_FORCE_FPS.                                                 *)
(***************************************************************************)
EXTENDS Integers, Sequences, FiniteSets, TLC

VARIABLES
    registry,   \* context_dict: mode name -> cached instance (0 is None)
    active,     \* active_context: an instance id (0 is None)
    contexts,   \* every context instance ever constructed, by id
    bow,        \* Bow.INSTANCE (a GroupSingle): the one current bow
    arrows,     \* Arrow.INSTANCES (a Group), in insertion order
    target,     \* Target.INSTANCE: the hitbox triple, <<>> before the first game
    status,     \* "running", "exited" (quit_func) or "crashed" (uncaught error)
    instr,      \* the instruction the last frame handled, <<>> if none
    hits,       \* the update_score calls of the last frame, in order
    gone,       \* the arrows the last frame removed from Arrow.INSTANCES
    fired,      \* the number of Bow.shoot calls of the last frame
    closed,     \* whether the last frame received a window-close (QUIT) event
    since,      \* GameContext.update calls since the current bow last shot
    gframes,    \* GameContext.update calls since the initial state
    games,      \* the number of GameContext instances constructed so far
    probe,      \* the input of the operation under study: accumulation times
                \* (SpecForce), the batch of the compared frame (SpecIgnore)
    result      \* what the operation gave: the forces (SpecForce), the world
                \* after the frame on the batch without its unrecognized
                \* events (SpecIgnore); <<>> before

vars == <<registry, active, contexts, bow, arrows, target, status,
          instr, hits, gone, fired, closed, since, gframes, games, probe,
          result>>

-----------------------------------------------------------------------------
(* Bounds of the model *)

\* longest arbitrary event batch of one frame
MaxBatchLen == 2
\* length of the batch made of repeated space-key releases
MaxBurst == 6
\* GameContext.update calls explored after the initial state
MaxGameFrames == 4
\* game sessions constructed after the initial state
MaxGames == 2

-----------------------------------------------------------------------------
(* Program constants *)

SCREEN_WIDTH == 850
SCREEN_HEIGHT == 650
GRAVITY == 0
SCORE_TABLE == <<3, 2, 1>>

BOW_POS_INIT == [x |-> 20, y |-> 0]
BOW_SPEED == <<0, 8>>
AMMO_MAX == 5
FORCE_MIN == 10
FORCE_MAX == 50
fps == 30
\* Bow.init: int(TIME_COOLDOWN_S * fps) with TIME_COOLDOWN_S = 1
TIME_COOLDOWN_FPS == 1 * fps
\* Bow.init: int(TIME_FORCE_S * fps) with TIME_FORCE_S = 0.7
TIME_FORCE_FPS == (7 * fps) \div 10

HITBOX_OFFSET == <<165, 90>>

\* a hitbox one pixel wide
HITBOX_SIZE_THIN == <<1, 17>>

HITBOX_SIZE == <<26, 17>>

\* Sizes of the images the code loads from resources/ (not part of the
\* sources): the bow image holds the rope marker at y = 180, the target
\* image holds the three AREAS, the largest being 42 x 399 at x = 88.
BOW_IMG_HEIGHT == 200
TARGET_IMG_WIDTH == 130
TARGET_IMG_HEIGHT == 399

\* an attribute that has not been assigned yet
Unset == -1

-----------------------------------------------------------------------------
(* pygame.Rect *)

Rect(x, y, w, h) == [x |-> x, y |-> y, w |-> w, h |-> h]

Move(r, dx, dy) == [r EXCEPT !.x = @ + dx, !.y = @ + dy]

colliderect(a, b) ==
    /\ a.x < b.x + b.w
    /\ a.y < b.y + b.h
    /\ a.x + a.w > b.x
    /\ a.y + a.h > b.y

\* collidelist returning the last colliding rectangle instead of the first
collidelistLast(a, rs) ==
    LET idx == {i \in 1..Len(rs) : colliderect(a, rs[i])}
    IN IF idx = {} THEN -1
       ELSE (CHOOSE i \in idx : \A j \in idx : i >= j) - 1

\* index (from 0) of the first rectangle of rs that a collides with, or -1
collidelist(a, rs) ==
    LET idx == {i \in 1..Len(rs) : colliderect(a, rs[i])}
    IN IF idx = {} THEN -1
       ELSE (CHOOSE i \in idx : \A j \in idx : i <= j) - 1

\* a float offset as Rect.move_ip takes it: truncated toward zero
Trunc(v) ==
    IF v >= 0 THEN v \div TIME_FORCE_FPS ELSE -((-v) \div TIME_FORCE_FPS)

-----------------------------------------------------------------------------
(* Target *)

INNER_I == 0
MIDDLE_I == 1
OUTER_I == 2

AREAS == << Rect(79, 127, 26, 153), Rect(88, 59, 34, 289), Rect(88, 0, 42, 399) >>

\* Target.__init__ without the move_ip of the middle rectangle
TargetNewMiddleUnmoved ==
    LET x == SCREEN_WIDTH - TARGET_IMG_WIDTH
        y == SCREEN_HEIGHT - TARGET_IMG_HEIGHT
    IN << Move(AREAS[INNER_I + 1], x, y),
          AREAS[MIDDLE_I + 1],
          Move(AREAS[OUTER_I + 1], x, y) >>

\* Target.__init__ and Target.hitbox: (inner, middle, outer) moved to the
\* bottom right corner of the screen
TargetNew ==
    LET x == SCREEN_WIDTH - TARGET_IMG_WIDTH
        y == SCREEN_HEIGHT - TARGET_IMG_HEIGHT
    IN << Move(AREAS[INNER_I + 1], x, y),
          Move(AREAS[MIDDLE_I + 1], x, y),
          Move(AREAS[OUTER_I + 1], x, y) >>

-----------------------------------------------------------------------------
(* Input events *)

KeyDown(k) == [type |-> "KEYDOWN", key |-> k]
KeyUp(k) == [type |-> "KEYUP", key |-> k]
QuitEvent == [type |-> "QUIT", key |-> ""]

Events ==
    { KeyDown("K_SPACE"), KeyUp("K_SPACE"), KeyDown("K_ESCAPE"),
      KeyDown("K_UP"), KeyDown("K_DOWN"), KeyDown("K_RETURN"),
      KeyDown("K_a"), QuitEvent }

Burst == [i \in 1..MaxBurst |-> KeyUp("K_SPACE")]

\* what pygame.event.get() may return in one frame
Batches == UNION { [1..n -> Events] : n \in 0..MaxBatchLen } \cup {Burst}

-----------------------------------------------------------------------------
(* Arrow *)

\* Arrow.__init__; force is in units of 1/TIME_FORCE_FPS
ArrowNew(context, topleft, force, tgt) ==
    [ context |-> context,
      rect    |-> [x |-> topleft.x, y |-> topleft.y],
      hitbox  |-> Rect(topleft.x + HITBOX_OFFSET[1], topleft.y + HITBOX_OFFSET[2],
                       HITBOX_SIZE[1], HITBOX_SIZE[2]),
      speed   |-> <<force, 0>>,
      target  |-> tgt ]

\* Arrow.update without the kill of an arrow that left the screen
ArrowUpdateNoDespawn(a) ==
    LET speed  == <<a.speed[1], a.speed[2] + GRAVITY * TIME_FORCE_FPS>>
        dx     == Trunc(speed[1])
        dy     == Trunc(speed[2])
        rect   == [x |-> a.rect.x + dx, y |-> a.rect.y + dy]
        hitbox == Move(a.hitbox, dx, dy)
        zone   == collidelist(hitbox, a.target)
    IN [ arrow  |-> [a EXCEPT !.rect = rect, !.hitbox = hitbox,
                              !.speed = IF zone # -1 THEN <<0, 0>> ELSE speed],
         killed |-> zone # -1,
         zone   |-> zone ]

\* Arrow.update for an arrow of the group: the arrow after the call, whether
\* it was removed from the group (kill), and the zone passed to update_score
\* (-1 when update_score was not called)
ArrowUpdate(a) ==
    IF a.speed = <<0, 0>>
    THEN [arrow |-> a, killed |-> FALSE, zone |-> -1]
    ELSE
      LET speed  == <<a.speed[1], a.speed[2] + GRAVITY * TIME_FORCE_FPS>>
          dx     == Trunc(speed[1])
          dy     == Trunc(speed[2])
          rect   == [x |-> a.rect.x + dx, y |-> a.rect.y + dy]
          hitbox == Move(a.hitbox, dx, dy)
          out    == rect.x > SCREEN_WIDTH \/ rect.y > SCREEN_HEIGHT
          zone   == collidelist(hitbox, a.target)
      IN [ arrow  |-> [a EXCEPT !.rect = rect, !.hitbox = hitbox,
                                !.speed = IF zone # -1 THEN <<0, 0>> ELSE speed],
           killed |-> out \/ zone # -1,
           zone   |-> zone ]

-----------------------------------------------------------------------------
(* Bow and its states *)

NoBow ==
    [ context |-> 0, rect |-> BOW_POS_INIT, speed |-> <<0, 0>>, ammo |-> 0,
      state |-> "None", bent_time |-> Unset, cooldown |-> Unset ]

\* Bow.__init__
BowNew(context) ==
    [ context |-> context, rect |-> BOW_POS_INIT, speed |-> BOW_SPEED,
      ammo |-> AMMO_MAX, state |-> "Normal",
      bent_time |-> Unset, cooldown |-> Unset ]

\* Bow.force with FORCE_MIN and FORCE_MAX exchanged
ForceSwapped(bent_time) ==
    (FORCE_MIN - FORCE_MAX) * bent_time + FORCE_MAX * TIME_FORCE_FPS

\* Bow.force, in units of 1/TIME_FORCE_FPS
Force(bent_time) ==
    (FORCE_MAX - FORCE_MIN) * bent_time + FORCE_MIN * TIME_FORCE_FPS

IsSpaceDown(e) == e.type = "KEYDOWN" /\ e.key = "K_SPACE"
IsSpaceUp(e) == e.type = "KEYUP" /\ e.key = "K_SPACE"

\* Bow.shoot without the decrement of the ammo
ShootFree(w) ==
    [w EXCEPT
       !.arrows = Append(@, ArrowNew(w.bow.context, w.bow.rect,
                                     Force(w.bow.bent_time), w.target)),
       !.fired = @ + 1]

\* Bow.shoot, on the world w
Shoot(w) ==
    [w EXCEPT
       !.arrows = Append(@, ArrowNew(w.bow.context, w.bow.rect,
                                     Force(w.bow.bent_time), w.target)),
       !.bow.ammo = @ - 1,
       !.fired = @ + 1]

\* the state entered after a shot (BentBowState.update, the branch on _ammo)
Reloaded(b) ==
    IF b.ammo # 0
    THEN [b EXCEPT !.state = "Reload", !.cooldown = TIME_COOLDOWN_FPS]
    ELSE [b EXCEPT !.state = "Empty", !.speed = <<0, 0>>]

\* the world once the bow that has just shot is put in its next state
LeaveBent(w) == [w EXCEPT !.bow = Reloaded(w.bow)]

\* the input loop of NormalBowState.update bending the bow on any key press
RECURSIVE NormalInputsAnyKey(_, _)
NormalInputsAnyKey(b, inputs) ==
    IF inputs = <<>> THEN b
    ELSE NormalInputsAnyKey(
           IF Head(inputs).type = "KEYDOWN"
           THEN [b EXCEPT !.state = "Bent", !.bent_time = 0]
           ELSE b,
           Tail(inputs))

\* the input loop of NormalBowState.update
RECURSIVE NormalInputs(_, _)
NormalInputs(b, inputs) ==
    IF inputs = <<>> THEN b
    ELSE NormalInputs(
           IF IsSpaceDown(Head(inputs))
           THEN [b EXCEPT !.state = "Bent", !.bent_time = 0]
           ELSE b,
           Tail(inputs))

\* the input loop of BentBowState.update: the loop runs over the whole batch,
\* whatever state the bow is put in on the way
RECURSIVE BentInputs(_, _)
BentInputs(w, inputs) ==
    IF inputs = <<>> THEN w
    ELSE BentInputs(
           IF IsSpaceUp(Head(inputs)) THEN LeaveBent(Shoot(w)) ELSE w,
           Tail(inputs))

\* the update methods with a BentBowState.update that adds to the
\* accumulation time without comparing it to the threshold
StateUpdateNoClamp(w, inputs) ==
    CASE w.bow.state = "Normal" ->
           [w EXCEPT !.bow = NormalInputs(w.bow, inputs)]
      [] w.bow.state = "Bent" ->
           BentInputs([w EXCEPT !.bow.bent_time = @ + 1], inputs)
      [] w.bow.state = "Reload" ->
           IF w.bow.cooldown - 1 = 0
           THEN [w EXCEPT !.bow.cooldown = 0, !.bow.state = "Normal"]
           ELSE [w EXCEPT !.bow.cooldown = @ - 1]
      [] OTHER -> w

\* the update methods with a ReloadBowState.update that lets a press of the
\* space key bend the bow
StateUpdateReloadListens(w, inputs) ==
    CASE w.bow.state = "Normal" ->
           [w EXCEPT !.bow = NormalInputs(w.bow, inputs)]
      [] w.bow.state = "Bent" ->
           BentInputs(
             IF w.bow.bent_time < TIME_FORCE_FPS
             THEN [w EXCEPT !.bow.bent_time = @ + 1]
             ELSE w,
             inputs)
      [] w.bow.state = "Reload" ->
           IF w.bow.cooldown - 1 = 0
           THEN [w EXCEPT !.bow.cooldown = 0, !.bow.state = "Normal"]
           ELSE [w EXCEPT !.bow = NormalInputs([@ EXCEPT !.cooldown = @ - 1], inputs)]
      [] OTHER -> w

\* the update method of the bow's current state
StateUpdate(w, inputs) ==
    CASE w.bow.state = "Normal" ->
           [w EXCEPT !.bow = NormalInputs(w.bow, inputs)]
      [] w.bow.state = "Bent" ->
           BentInputs(
             IF w.bow.bent_time < TIME_FORCE_FPS
             THEN [w EXCEPT !.bow.bent_time = @ + 1]
             ELSE w,
             inputs)
      [] w.bow.state = "Reload" ->
           IF w.bow.cooldown - 1 = 0
           THEN [w EXCEPT !.bow.cooldown = 0, !.bow.state = "Normal"]
           ELSE [w EXCEPT !.bow.cooldown = @ - 1]
      [] OTHER -> w

\* Bow.update
BowUpdate(w, inputs) ==
    LET y     == w.bow.rect.y + w.bow.speed[2]
        x     == w.bow.rect.x + w.bow.speed[1]
        speed == IF y < 0 \/ y > SCREEN_HEIGHT - BOW_IMG_HEIGHT
                 THEN <<-w.bow.speed[1], -w.bow.speed[2]>>
                 ELSE w.bow.speed
    IN StateUpdate([w EXCEPT !.bow.rect = [x |-> x, y |-> y],
                             !.bow.speed = speed],
                   inputs)

-----------------------------------------------------------------------------
(* GameContext *)

\* update_score called on the current session instead of the arrow's own
UpdateScoreCurrent(w, zone, a) ==
    [w EXCEPT !.contexts[w.bow.context].score = @ + SCORE_TABLE[zone + 1],
              !.hits = Append(@, [zone |-> zone, context |-> w.bow.context,
                                  arrow |-> a])]

\* update_score assigning the zone's value instead of adding it
UpdateScoreOverwrite(w, zone, a) ==
    [w EXCEPT !.contexts[a.context].score = SCORE_TABLE[zone + 1],
              !.hits = Append(@, [zone |-> zone, context |-> a.context,
                                  arrow |-> a])]

\* GameContext.update_score
UpdateScore(w, zone, a) ==
    [w EXCEPT !.contexts[a.context].score = @ + SCORE_TABLE[zone + 1],
              !.hits = Append(@, [zone |-> zone, context |-> a.context,
                                  arrow |-> a])]

\* the group after Arrow.update returned r: an arrow that was killed has
\* left it
Regroup(w, r) ==
    IF r.killed
    THEN [w EXCEPT !.gone = Append(@, r.arrow)]
    ELSE [w EXCEPT !.arrows = Append(@, r.arrow)]

\* the effect on the world of one Arrow.update that returned r
Settle(w, r) ==
    Regroup(IF r.zone # -1 THEN UpdateScore(w, r.zone, r.arrow) ELSE w, r)

\* Arrow.INSTANCES.update(): every arrow of the group, in order
RECURSIVE ArrowsUpdate(_, _)
ArrowsUpdate(w, todo) ==
    IF todo = <<>> THEN w
    ELSE ArrowsUpdate(Settle(w, ArrowUpdate(Head(todo))), Tail(todo))

\* Arrow.INSTANCES.update() on the group as it is when the call starts
GroupUpdate(w) == ArrowsUpdate([w EXCEPT !.arrows = <<>>], w.arrows)

\* the frame counters after a GameContext.update that started with `before`
\* frames since the last shot
Tick(w, before) ==
    [w EXCEPT !.since = IF w.fired > 0 THEN 0
                        ELSE IF before = Unset THEN Unset ELSE before + 1,
              !.gframes = @ + 1]

\* GameContext.update: the world after the call and the instruction returned
GameUpdate(w, inputs) ==
    [ world |-> Tick(GroupUpdate(BowUpdate(w, inputs)), w.since),
      instr |-> IF \E i \in 1..Len(inputs) :
                     inputs[i].type = "KEYDOWN" /\ inputs[i].key = "K_ESCAPE"
                THEN <<"Pause", "Switch">>
                ELSE <<>> ]

-----------------------------------------------------------------------------
(* CustomMenu *)

\* a main menu whose Play option resumes the game instead of making one
MainMenuOptionsResume == << <<"Game", "Switch">>, <<"Quit", "Switch">> >>

MainMenuOptions == << <<"Game", "New">>, <<"Quit", "Switch">> >>
PauseOptions == << <<"Game", "Switch">>, <<"Menu", "Switch">>, <<"Quit", "Switch">> >>

Options(kind) == IF kind = "MainMenu" THEN MainMenuOptions ELSE PauseOptions

\* a cursor setter that stops at the first and at the last option
SetCursorClamped(kind, value) ==
    IF value < 0 THEN 0
    ELSE IF value >= Len(Options(kind)) THEN Len(Options(kind)) - 1
    ELSE value

\* the cursor setter
SetCursor(kind, value) == value % Len(Options(kind))

\* CustomMenu.update: the menu after the call and the instruction returned
RECURSIVE MenuUpdate(_, _)
MenuUpdate(m, inputs) ==
    IF inputs = <<>> THEN [menu |-> m, instr |-> <<>>]
    ELSE
      LET e == Head(inputs) IN
      IF e.type = "KEYDOWN" /\ e.key = "K_DOWN"
      THEN MenuUpdate([m EXCEPT !.cursor = SetCursor(m.kind, @ + 1)], Tail(inputs))
      ELSE IF e.type = "KEYDOWN" /\ e.key = "K_UP"
      THEN MenuUpdate([m EXCEPT !.cursor = SetCursor(m.kind, @ - 1)], Tail(inputs))
      ELSE IF e.type = "KEYDOWN" /\ e.key = "K_RETURN"
      THEN [menu |-> m, instr |-> Options(m.kind)[m.cursor + 1]]
      ELSE MenuUpdate(m, Tail(inputs))

-----------------------------------------------------------------------------
(* The context registry and the main loop *)

Names == {"Game", "Pause", "Menu", "Quit"}

\* ContextEntry.cont_class of each registry entry
ContClass(name) ==
    CASE name = "Game" -> "Game"
      [] name = "Pause" -> "Pause"
      [] name = "Menu" -> "MainMenu"
      [] name = "Quit" -> "Quit"

\* a context instance; cursor is used by the menus, score by the game
NewContext(kind) == [kind |-> kind, cursor |-> 0, score |-> 0]

\* cont_class(): GameContext.__init__ also makes the bow and the target
Construct(w, kind) ==
    LET id == Len(w.contexts) + 1
        w1 == [w EXCEPT !.contexts = Append(@, NewContext(kind))]
    IN IF kind = "Game"
       THEN [w1 EXCEPT !.bow = BowNew(id), !.target = TargetNew,
                       !.since = Unset, !.games = @ + 1]
       ELSE w1

\* context_change, "New": the instance just constructed becomes the entry
\* of `change` and the context returned
Register(w, change) ==
    [w EXCEPT !.registry[change] = Len(w.contexts), !.active = Len(w.contexts)]

\* context_change constructing an instance for "Switch" as it does for "New"
ContextChangeFresh(w, instruction) ==
    Register(Construct(w, ContClass(instruction[1])), instruction[1])

\* context_change: the world after the call, with active set to the
\* context returned
ContextChange(w, instruction) ==
    LET change == instruction[1]
        option == instruction[2]
    IN IF change \notin Names \/ option \notin {"Switch", "New"}
       THEN [w EXCEPT !.status = "crashed"]
       ELSE IF option = "Switch"
       THEN [w EXCEPT !.active = w.registry[change]]
       ELSE Register(Construct(w, ContClass(change)), change)

\* the event loop at the top of a main loop iteration
RECURSIVE GrabEvents(_, _, _)
GrabEvents(w, events, inputs) ==
    IF events = <<>> THEN [world |-> w, inputs |-> inputs]
    ELSE
      LET e == Head(events) IN
      IF e.type = "QUIT"
      THEN GrabEvents([ContextChange(w, <<"Quit", "Switch">>) EXCEPT !.closed = TRUE],
                      Tail(events), inputs)
      ELSE GrabEvents(w, Tail(events), Append(inputs, e))

\* the world after a CustomMenu.update that also updates the arrows
MenuDoneArrowsFly(w, r) ==
    [world |-> [GroupUpdate(w) EXCEPT !.contexts[w.active] = r.menu],
     instr |-> r.instr]

\* the world after CustomMenu.update returned r
MenuDone(w, r) ==
    [world |-> [w EXCEPT !.contexts[w.active] = r.menu], instr |-> r.instr]

\* active_context.update(inputs) with a Quit context whose update returns
\* without ending the program
ContextUpdateQuitIdle(w, inputs) ==
    CASE w.contexts[w.active].kind = "Game" -> GameUpdate(w, inputs)
      [] w.contexts[w.active].kind = "Quit" -> [world |-> w, instr |-> <<>>]
      [] OTHER -> MenuDone(w, MenuUpdate(w.contexts[w.active], inputs))

\* active_context.update(inputs)
ContextUpdate(w, inputs) ==
    CASE w.contexts[w.active].kind = "Game" -> GameUpdate(w, inputs)
      [] w.contexts[w.active].kind = "Quit" ->
           [world |-> [w EXCEPT !.status = "exited"], instr |-> <<>>]
      [] OTHER -> MenuDone(w, MenuUpdate(w.contexts[w.active], inputs))

\* the end of an iteration that goes back to the main menu when update
\* returned no instruction
HandleNoneAsMenu(u) ==
    IF u.world.status # "running" THEN u.world
    ELSE IF u.instr # <<>>
    THEN [ContextChange(u.world, u.instr) EXCEPT !.instr = u.instr]
    ELSE ContextChange(u.world, <<"Menu", "Switch">>)

\* the end of an iteration: the instruction returned by update, if any, is
\* handled by context_change
Handle(u) ==
    IF u.world.status # "running" THEN u.world
    ELSE IF u.instr # <<>>
    THEN [ContextChange(u.world, u.instr) EXCEPT !.instr = u.instr]
    ELSE u.world

\* the update of the active context on the inputs grabbed
Dispatch(g) ==
    IF g.world.active = 0 THEN [g.world EXCEPT !.status = "crashed"]
    ELSE Handle(ContextUpdate(g.world, g.inputs))

\* the records of the last frame are cleared when a frame starts
Reset(w) ==
    [w EXCEPT !.instr = <<>>, !.hits = <<>>, !.gone = <<>>, !.fired = 0,
              !.closed = FALSE]

\* one iteration of the main loop on the events of the frame
MainLoop(w, events) == Dispatch(GrabEvents(Reset(w), events, <<>>))

-----------------------------------------------------------------------------
(* The state machine *)

World ==
    [ registry |-> registry, active |-> active, contexts |-> contexts,
      bow |-> bow, arrows |-> arrows, target |-> target, status |-> status,
      instr |-> instr, hits |-> hits, gone |-> gone, fired |-> fired,
      closed |-> closed, since |-> since, gframes |-> gframes, games |-> games ]

Is(w) ==
    /\ registry = w.registry
    /\ active = w.active
    /\ contexts = w.contexts
    /\ bow = w.bow
    /\ arrows = w.arrows
    /\ target = w.target
    /\ status = w.status
    /\ instr = w.instr
    /\ hits = w.hits
    /\ gone = w.gone
    /\ fired = w.fired
    /\ closed = w.closed
    /\ since = w.since
    /\ gframes = w.gframes
    /\ games = w.games

Becomes(w) ==
    /\ registry' = w.registry
    /\ active' = w.active
    /\ contexts' = w.contexts
    /\ bow' = w.bow
    /\ arrows' = w.arrows
    /\ target' = w.target
    /\ status' = w.status
    /\ instr' = w.instr
    /\ hits' = w.hits
    /\ gone' = w.gone
    /\ fired' = w.fired
    /\ closed' = w.closed
    /\ since' = w.since
    /\ gframes' = w.gframes
    /\ games' = w.games

\* the state when the main loop is entered: Menu, Pause and Quit are
\* constructed, the Game entry holds no instance, Menu is active
Startup ==
    [ registry |-> [n \in Names |->
                      CASE n = "Menu" -> 1 [] n = "Pause" -> 2
                        [] n = "Quit" -> 3 [] OTHER -> 0],
      active   |-> 1,
      contexts |-> << NewContext("MainMenu"), NewContext("Pause"), NewContext("Quit") >>,
      bow      |-> NoBow,
      arrows   |-> <<>>,
      target   |-> <<>>,
      status   |-> "running",
      instr    |-> <<>>,
      hits     |-> <<>>,
      gone     |-> <<>>,
      fired    |-> 0,
      closed   |-> FALSE,
      since    |-> Unset,
      gframes  |-> 0,
      games    |-> 0 ]

Init == Is(Startup) /\ probe = <<>> /\ result = <<>>

ActiveKind == IF active = 0 THEN "None" ELSE contexts[active].kind

\* one frame with the context of the given kind active
Frame(kind) ==
    /\ status = "running"
    /\ ActiveKind = kind
    /\ \E events \in Batches :
         \E w \in {MainLoop(World, events)} :
            /\ w.gframes <= MaxGameFrames
            /\ w.games <= MaxGames
            /\ Becomes(w)
            /\ UNCHANGED <<probe, result>>

MenuFrame ==
    /\ Frame("MainMenu")

PauseFrame ==
    /\ Frame("Pause")

GameFrame ==
    /\ Frame("Game")

QuitFrame ==
    /\ Frame("Quit")

Next == MenuFrame \/ PauseFrame \/ GameFrame \/ QuitFrame

Spec == Init /\ [][Next]_vars

-----------------------------------------------------------------------------
(* States reached by playing a fixed list of frames from startup *)

RECURSIVE Run(_, _)
RECURSIVE Continue(_, _)
Run(w, batches) ==
    IF batches = <<>> THEN w
    ELSE Continue(MainLoop(w, Head(batches)), Tail(batches))

\* the program stops when it has exited
Continue(w, batches) ==
    IF w.status = "running" THEN Run(w, batches) ELSE w

Idle(n) == [i \in 1..n |-> <<>>]

\* Play from the main menu, wait, press space, hold it for `hold` game
\* frames and release it: the bow shoots in game frame wait + hold + 1 with
\* accumulation time hold
ShotScript(wait, hold) ==
    << <<KeyDown("K_RETURN")>> >> \o Idle(wait) \o << <<KeyDown("K_SPACE")>> >>
        \o Idle(hold - 1) \o << <<KeyUp("K_SPACE")>> >>

\* the state `more` idle game frames after that shot
AfterShot(wait, hold, more) ==
    [Run(Startup, ShotScript(wait, hold) \o Idle(more)) EXCEPT !.gframes = 0]

\* an arrow two frames short of the inner zone, and one two frames short of
\* the right screen bound
InFlight == { AfterShot(14, 21, 9), AfterShot(0, 17, 17) }

InitFlight ==
    /\ \E w \in InFlight : Is(w)
    /\ probe = <<>>
    /\ result = <<>>

\* any input, from a state with an arrow about to land or leave
SpecFlight == InitFlight /\ [][Next]_vars

\* largest number of game frames waited before charging
MaxWait == 60

\* every accumulation time, at every height the bow passes in MaxWait frames
InitArrow ==
    /\ \E wait \in 0..MaxWait, hold \in 1..TIME_FORCE_FPS :
          \E w \in {AfterShot(wait, hold, 0)} : Is(w)
    /\ probe = <<>>
    /\ result = <<>>

\* a frame without events while an arrow is flying
IdleFrame ==
    /\ status = "running"
    /\ arrows # <<>>
    /\ \E w \in {MainLoop(World, <<>>)} : Becomes(w)
    /\ UNCHANGED <<probe, result>>

SpecArrow == InitArrow /\ [][IdleFrame]_vars

\* Play, wait, charge for `hold` game frames, then two releases of the space
\* key arrive in one batch: the bow shoots twice from one place in one frame
DoubleShotScript(wait, hold) ==
    << <<KeyDown("K_RETURN")>> >> \o Idle(wait) \o << <<KeyDown("K_SPACE")>> >>
        \o Idle(hold - 1) \o << <<KeyUp("K_SPACE"), KeyUp("K_SPACE")>> >>

\* the state `more` idle game frames after the double shot
AfterDoubleShot(wait, hold, more) ==
    [Run(Startup, DoubleShotScript(wait, hold) \o Idle(more)) EXCEPT !.gframes = 0]

\* two arrows of one session, both two frames short of the inner zone
InitScore ==
    /\ \E w \in {AfterDoubleShot(14, 21, 9)} : Is(w)
    /\ probe = <<>>
    /\ result = <<>>

\* any input, from a state with two arrows about to land together
SpecScore == InitScore /\ [][Next]_vars

\* a new session; a bow charged until two frames short of the threshold; a
\* bow that shot at full charge, one frame before the end of its cooldown
Charging ==
    { Run(Startup, << <<KeyDown("K_RETURN")>> >>),
      [Run(Startup, << <<KeyDown("K_RETURN")>>, <<KeyDown("K_SPACE")>> >>
                       \o Idle(TIME_FORCE_FPS - 2)) EXCEPT !.gframes = 0],
      AfterShot(0, TIME_FORCE_FPS, TIME_COOLDOWN_FPS - 1) }

InitCharge ==
    /\ \E w \in Charging : Is(w)
    /\ probe = <<>>
    /\ result = <<>>

\* game frames on any input, from those states
SpecCharge == InitCharge /\ [][GameFrame]_vars

\* bows that have just shot (once at the lowest charge, once at full charge,
\* twice in one frame) and entered Reload in the last frame
Reloading ==
    { AfterShot(0, 1, 0), AfterShot(14, TIME_FORCE_FPS, 0), AfterDoubleShot(3, 5, 0) }

InitReload ==
    /\ \E w \in Reloading : Is(w)
    /\ probe = <<>>
    /\ result = <<>>

\* when a frame with the game active and the bow in Reload can be played
ReloadFrameEnabled ==
    /\ status = "running"
    /\ ActiveKind = "Game"
    /\ bow.state = "Reload"

\* a frame, on any input, with the game active and the bow in Reload
ReloadFrame ==
    /\ ReloadFrameEnabled
    /\ \E events \in Batches :
         \E w \in {MainLoop(World, events)} : Becomes(w)
    /\ UNCHANGED <<probe, result>>

\* the main loop never stops iterating (while True, clock.tick), so a frame
\* that can be played is eventually played: weak fairness of ReloadFrame,
\* WF_vars(ReloadFrame), written with the enabling condition of the frame
\* spelled out (every such frame changes the state)
SpecReload ==
    /\ InitReload
    /\ [][ReloadFrame]_vars
    /\ ([]<>(~ReloadFrameEnabled) \/ []<><<ReloadFrame>>_vars)

\* game frames the bow takes to go down the screen and come back near the
\* top edge
MaxTravel == 112

\* the state after n frames without events
RECURSIVE AfterIdle(_, _)
AfterIdle(w, n) ==
    IF n = 0 \/ w.status # "running" THEN w
    ELSE AfterIdle(MainLoop(w, <<>>), n - 1)

\* Play and leave the bow alone until it comes back up to the top edge
InitBounce ==
    /\ \E w \in {[AfterIdle(Run(Startup, << <<KeyDown("K_RETURN")>> >>), MaxTravel)
                    EXCEPT !.gframes = 0]} : Is(w)
    /\ probe = <<>>
    /\ result = <<>>

\* any input, from a state with the bow coming back to the top edge
SpecBounce == InitBounce /\ [][Next]_vars

-----------------------------------------------------------------------------
(* Arrow.update on an arrow of any whole speed, fired at any height *)

\* the heights of the bow when it shoots: it starts at 0 and moves by
\* BOW_SPEED a frame, one step past each edge of the screen
Heights ==
    { y \in (0 - BOW_SPEED[2])..(SCREEN_HEIGHT - BOW_IMG_HEIGHT + BOW_SPEED[2]) :
        y % BOW_SPEED[2] = 0 }

\* the world in which the bow of w, at height y, has called Bow.shoot with
\* the force v (the accumulation time that gives v need not be a whole
\* number of frames, and is left as it is)
ShotAt(w, v, y) ==
    [w EXCEPT
       !.bow.rect = [x |-> BOW_POS_INIT.x, y |-> y],
       !.bow.ammo = @ - 1,
       !.bow.state = "Reload",
       !.bow.cooldown = TIME_COOLDOWN_FPS,
       !.arrows = << ArrowNew(w.bow.context, [x |-> BOW_POS_INIT.x, y |-> y],
                              v * TIME_FORCE_FPS, w.target) >>,
       !.fired = 1,
       !.since = 0]

InitTarget ==
    /\ \E v \in FORCE_MIN..FORCE_MAX, y \in Heights :
          \E w \in {ShotAt(Run(Startup, << <<KeyDown("K_RETURN")>> >>), v, y)} : Is(w)
    /\ probe = <<>>
    /\ result = <<>>

\* frames without events until the arrow has landed or left the screen
SpecTarget == InitTarget /\ [][IdleFrame]_vars

-----------------------------------------------------------------------------
(* A frame on a batch, and on the batch without its unrecognized events *)

\* game frames played before the compared frame
MaxAdvance == 2

\* the key events a mode looks at
Recognized(kind, e) ==
    CASE kind = "Game" ->
           \/ e.key = "K_SPACE" /\ e.type \in {"KEYDOWN", "KEYUP"}
           \/ e.key = "K_ESCAPE" /\ e.type = "KEYDOWN"
      [] kind \in {"MainMenu", "Pause"} ->
           e.type = "KEYDOWN" /\ e.key \in {"K_UP", "K_DOWN", "K_RETURN"}
      [] OTHER -> FALSE

Keep(kind, e) == e.type = "QUIT" \/ Recognized(kind, e)

\* the batch without the key events the mode does not recognize
RECURSIVE Strip(_, _)
Strip(kind, events) ==
    IF events = <<>> THEN <<>>
    ELSE IF Keep(kind, Head(events))
         THEN <<Head(events)>> \o Strip(kind, Tail(events))
         ELSE Strip(kind, Tail(events))

\* the events of the model and the release of a key no mode looks at
EventsAndOther == Events \cup {KeyUp("K_a")}

BatchesAndOther == UNION { [1..n -> EventsAndOther] : n \in 0..MaxBatchLen }

\* the batches played before the compared frame
Steps == {<<>>} \cup { <<e>> : e \in Events }

\* the state after n more shots, each charged for one frame and followed
\* by the cooldown
RECURSIVE AfterVolley(_, _)
AfterVolley(w, n) ==
    IF n = 0 THEN w
    ELSE AfterVolley(Run(w, << <<KeyDown("K_SPACE")>>, <<KeyUp("K_SPACE")>> >>
                               \o Idle(TIME_COOLDOWN_FPS)),
                     n - 1)

\* startup; a bow charged to the threshold; a bow one frame before the end
\* of its cooldown; an arrow two frames short of the target; an empty bow
Samples ==
    { Startup,
      [Run(Startup, << <<KeyDown("K_RETURN")>>, <<KeyDown("K_SPACE")>> >>
                       \o Idle(TIME_FORCE_FPS)) EXCEPT !.gframes = 0],
      AfterShot(0, 1, TIME_COOLDOWN_FPS - 1),
      AfterShot(14, 21, 9),
      [AfterVolley(Run(Startup, << <<KeyDown("K_RETURN")>> >>), AMMO_MAX)
         EXCEPT !.gframes = 0] }

InitIgnore ==
    /\ \E w \in Samples : Is(w)
    /\ probe = <<>>
    /\ result = <<>>

\* a frame played before the compared one
Advance ==
    /\ status = "running"
    /\ result = <<>>
    /\ \E events \in Steps :
         \E w \in {MainLoop(World, events)} :
            /\ w.gframes <= MaxAdvance
            /\ w.games <= MaxGames
            /\ Becomes(w)
            /\ UNCHANGED <<probe, result>>

\* the compared frame: the main loop runs on a batch, and the world it
\* would have given on the batch without its unrecognized events is kept
Compare ==
    /\ status = "running"
    /\ result = <<>>
    /\ \E events \in BatchesAndOther :
         /\ Becomes(MainLoop(World, events))
         /\ probe' = events
         /\ result' = MainLoop(World, Strip(ActiveKind, events))

SpecIgnore == InitIgnore /\ [][Advance \/ Compare]_vars

-----------------------------------------------------------------------------
(* The main loop with the batch of each frame kept *)

InitMenu == Is(Startup) /\ probe = <<>> /\ result = <<>>

\* the key presses CustomMenu.update tests for, a key press it does not
\* test for, and the closing of the window
MenuEvents ==
    { e \in Events :
        \/ e.type = "QUIT"
        \/ /\ e.type = "KEYDOWN"
           /\ e.key \in {"K_DOWN", "K_UP", "K_RETURN", "K_SPACE"} }

MenuBatches == UNION { [1..n -> MenuEvents] : n \in 0..MaxBatchLen }

\* one frame that starts with a menu (or Quit) active; probe keeps the
\* events of the frame
MenuBatch ==
    /\ status = "running"
    /\ ActiveKind # "Game"
    /\ \E events \in MenuBatches :
         \E w \in {MainLoop(World, events)} :
            /\ w.games <= MaxGames
            /\ Becomes(w)
            /\ probe' = events
            /\ UNCHANGED result

\* one frame that starts with the game active, on at most one event
GameStep ==
    /\ status = "running"
    /\ ActiveKind = "Game"
    /\ \E events \in Steps :
         \E w \in {MainLoop(World, events)} :
            /\ w.gframes <= MaxAdvance
            /\ Becomes(w)
            /\ probe' = <<>>
            /\ UNCHANGED result

SpecMenu == InitMenu /\ [][MenuBatch \/ GameStep]_vars

-----------------------------------------------------------------------------
(* Bow.force as a function of the accumulation time *)

InitForce ==
    /\ Is(Startup)
    /\ probe \in (0..TIME_FORCE_FPS) \X (0..TIME_FORCE_FPS)
    /\ result = <<>>

ApplyForce ==
    /\ result = <<>>
    /\ result' = <<Force(probe[1]), Force(probe[2])>>
    /\ UNCHANGED <<registry, active, contexts, bow, arrows, target, status,
                   instr, hits, gone, fired, closed, since, gframes, games,
                   probe>>

SpecForce == InitForce /\ [][ApplyForce]_vars

-----------------------------------------------------------------------------
(* Claims *)

GameIds == {c \in 1..Len(contexts) : contexts[c].kind = "Game"}

\* C1: in every reachable state of a game session the bow's ammo satisfies
\* 0 <= ammo <= AMMO_MAX, whatever event batches the frames received.
C1_AmmoInRange ==
    bow.context # 0 => 0 <= bow.ammo /\ bow.ammo <= AMMO_MAX

\* C2: in the frame in which the ammo of a session's bow reaches 0 the bow
\* ends in state Empty with velocity (0,0), and in every later frame of the
\* session it is still Empty with velocity (0,0), whatever events arrive.
C2_EmptyIsFinal ==
    [][ (bow.context # 0 /\ bow'.context = bow.context) =>
          /\ (bow.ammo > 0 /\ bow'.ammo <= 0) =>
                (bow'.state = "Empty" /\ bow'.speed = <<0, 0>>)
          /\ bow.ammo <= 0 =>
                (bow'.state = "Empty" /\ bow'.speed = <<0, 0>>) ]_vars

\* C3: after a "Game New" instruction has been handled, every arrow of the
\* live set the new session updates and draws was fired in the new session.
C3_NoStaleArrows ==
    instr = <<"Game", "New">> =>
        \A i \in 1..Len(arrows) : arrows[i].context = active

\* the points of the hits hs whose arrow was fired in session c
RECURSIVE Points(_, _)
Points(hs, c) ==
    IF hs = <<>> THEN 0
    ELSE (IF Head(hs).arrow.context = c
          THEN (CASE Head(hs).zone = 0 -> 3 [] Head(hs).zone = 1 -> 2 [] OTHER -> 1)
          ELSE 0) + Points(Tail(hs), c)

\* C4: every "Game New" produces a fresh session with score 0 and a bow in
\* state Normal with AMMO_MAX ammo, which replaces the registry's Game
\* entry; every arrow carries the session whose bow fired it, and a
\* session's score changes only by the hits of its own arrows.
C4_FreshSession ==
    [][ /\ instr' = <<"Game", "New">> =>
             /\ Len(contexts') = Len(contexts) + 1
             /\ active' = Len(contexts')
             /\ registry'["Game"] = active'
             /\ contexts'[active'] = [kind |-> "Game", cursor |-> 0, score |-> 0]
             /\ bow'.context = active'
             /\ bow'.state = "Normal"
             /\ bow'.ammo = AMMO_MAX
        /\ \A c \in GameIds :
             contexts'[c].score = contexts[c].score + Points(hits', c)
        /\ fired' <= Len(arrows')
        /\ \A i \in (Len(arrows') - fired' + 1)..Len(arrows') :
             arrows'[i].context = active ]_vars

\* C4 (witness): an arrow of an earlier session hits the target while a
\* later session is played, and the later session's score is still 0
C4_OldArrowHits ==
    /\ active # 0
    /\ contexts[active].kind = "Game"
    /\ contexts[active].score = 0
    /\ \E i \in 1..Len(hits) :
          /\ hits[i].arrow.context # active
          /\ contexts[hits[i].arrow.context].score > 0

Zones(a) == {z \in 0..2 : colliderect(a.hitbox, a.target[z + 1])}

\* C5: an arrow whose hitbox intersects a zone after its move reports the
\* first such zone in the order inner, middle, outer, once, worth 3, 2 or 1,
\* has its velocity set to zero and leaves the live set in that update; no
\* arrow of the live set intersects a zone or stands still.
C5_HitOnce ==
    [][ /\ \A i \in 1..Len(hits') :
             /\ Zones(hits'[i].arrow) # {}
             /\ \A z \in Zones(hits'[i].arrow) : hits'[i].zone <= z
             /\ hits'[i].zone \in Zones(hits'[i].arrow)
             /\ hits'[i].arrow.speed = <<0, 0>>
             /\ \E j \in 1..Len(gone') : gone'[j] = hits'[i].arrow
        /\ Len(hits') = Cardinality({j \in 1..Len(gone') : Zones(gone'[j]) # {}})
        /\ \A j \in 1..Len(arrows') :
             Zones(arrows'[j]) = {} /\ arrows'[j].speed # <<0, 0>>
        /\ \A c \in GameIds :
             contexts'[c].score = contexts[c].score + Points(hits', c) ]_vars

\* C5 (witness): one hit of the inner zone takes the score from 0 to 3
C5_InnerHit ==
    /\ Len(hits) = 1
    /\ hits[1].zone = 0
    /\ contexts[hits[1].arrow.context].score = 3

OutOfBounds(a) == a.rect.x > SCREEN_WIDTH \/ a.rect.y > SCREEN_HEIGHT

\* C6: an arrow whose position after a move exceeds the right or bottom
\* bound of the screen leaves the live set in that update, and no hit is
\* reported for it: no score changes in a frame whose removed arrows all
\* left the screen.
C6_OutOfBoundsNoScore ==
    [][ /\ \A j \in 1..Len(arrows') : ~OutOfBounds(arrows'[j])
        /\ \A j \in 1..Len(gone') :
             OutOfBounds(gone'[j]) =>
                /\ Zones(gone'[j]) = {}
                /\ \A i \in 1..Len(hits') : hits'[i].arrow # gone'[j]
        /\ (\A j \in 1..Len(gone') : OutOfBounds(gone'[j])) =>
                /\ hits' = <<>>
                /\ \A c \in GameIds : contexts'[c].score = contexts[c].score ]_vars

\* C6 (witness): an arrow has just left the screen and nothing was reported
C6_ArrowLeft ==
    /\ gone # <<>>
    /\ OutOfBounds(gone[1])
    /\ hits = <<>>

\* C7: the bow shoots at most one arrow per frame, and at least
\* TIME_COOLDOWN_FPS game frames pass between two shots of one session.
C7_CooldownBetweenShots ==
    [][ fired' > 0 =>
          /\ fired' = 1
          /\ (since = Unset \/ since + 1 >= TIME_COOLDOWN_FPS) ]_vars

\* C8: with threshold 21, FORCE_MIN 10 and FORCE_MAX 50, the force (in
\* units of 1/21) is 10 + 40 * t / 21, does not decrease when t grows, lies
\* in [10, 50] for every t in 0..21, is 10 at t = 0 and 50 at t = 21.
C8_ForceMonotoneBounded ==
    result # <<>> =>
        /\ result[1] = 10 * 21 + 40 * probe[1]
        /\ probe[1] <= probe[2] => result[1] <= result[2]
        /\ 10 * 21 <= result[1] /\ result[1] <= 50 * 21
        /\ probe[1] = 0 => result[1] = 10 * 21
        /\ probe[1] = 21 => result[1] = 50 * 21

\* C8 (witness): the forces of the two ends of the range have been computed
C8_ForceEnds ==
    /\ probe = <<0, 21>>
    /\ result = <<210, 1050>>

\* C9: a frame that handles no instruction or a "Switch" constructs no
\* instance and leaves the registry as it is; the Menu, Pause and Quit
\* entries never change; "Menu Switch" activates the cached Menu instance;
\* the registry changes only when a "New" instruction is handled.
C9_SwitchKeepsRegistry ==
    [][ /\ (instr' = <<>> \/ instr'[2] = "Switch") =>
             /\ registry' = registry
             /\ Len(contexts') = Len(contexts)
        /\ registry'["Menu"] = 1 /\ registry["Menu"] = 1
        /\ registry'["Pause"] = 2 /\ registry["Pause"] = 2
        /\ registry'["Quit"] = 3 /\ registry["Quit"] = 3
        /\ instr' = <<"Menu", "Switch">> => active' = registry["Menu"]
        /\ registry' # registry => (instr' # <<>> /\ instr'[2] = "New") ]_vars

\* C9 (witness): "Menu Switch" is handled from Pause in the second session,
\* so Menu is activated from Pause for a second time
C9_MenuFromPauseAgain ==
    /\ instr = <<"Menu", "Switch">>
    /\ active = registry["Menu"]
    /\ games = 2

\* pygame's Rect.contains
Contains(r, o) ==
    /\ r.x <= o.x /\ o.x + o.w <= r.x + r.w
    /\ r.y <= o.y /\ o.y + o.h <= r.y + r.h

ScoreBefore(c) == IF c <= Len(contexts) THEN contexts[c].score ELSE 0

\* C11: a session's score is never negative and never decreases; in every
\* frame it grows by exactly the sum of the zone values (3, 2 or 1) of the
\* hits its own arrows report in that frame, also when two arrows land in
\* the same frame, and it changes only in a frame where one of them did.
C11_ScoreIsSumOfHits ==
    [][ \A c \in 1..Len(contexts') :
          contexts'[c].kind = "Game" =>
             /\ ScoreBefore(c) >= 0
             /\ contexts'[c].score >= ScoreBefore(c)
             /\ contexts'[c].score = ScoreBefore(c) + Points(hits', c)
             /\ contexts'[c].score # ScoreBefore(c) =>
                   \E i \in 1..Len(hits') :
                      /\ hits'[i].arrow.context = c
                      /\ hits'[i].context = c
                      /\ hits'[i].zone \in 0..2 ]_vars

\* C11 (witness): two arrows of one session hit the inner zone in the same
\* frame and the session's score is 6
C11_TwoHitsOneFrame ==
    /\ Len(hits) = 2
    /\ hits[1].zone = 0 /\ hits[2].zone = 0
    /\ hits[1].arrow.context = hits[2].arrow.context
    /\ contexts[hits[1].arrow.context].score = 6

\* C12: exactly one mode is active at every moment; when Quit is the active
\* mode the next frame ends the program and Quit is still the active mode;
\* a handled "Quit Switch" makes Quit active, a frame that received a
\* window-close event ends the program in that same frame, and the program
\* only ever ends with Quit active.
C12_QuitIsTerminal ==
    [][ /\ active \in 1..Len(contexts)
        /\ active' \in 1..Len(contexts')
        /\ status' # "crashed"
        /\ ActiveKind = "Quit" => (status' = "exited" /\ active' = active)
        /\ instr' = <<"Quit", "Switch">> => contexts'[active'].kind = "Quit"
        /\ closed' => (status' = "exited" /\ contexts'[active'].kind = "Quit")
        /\ status' = "exited" => contexts'[active'].kind = "Quit" ]_vars

\* C12 (witness): the program has ended in the frame after a "Quit Switch"
\* chosen in the pause menu of a session, without any window-close event
C12_QuitChosen ==
    /\ status = "exited"
    /\ ~closed
    /\ ActiveKind = "Quit"
    /\ games = 1

\* C13: in a frame whose update returned no instruction the registry is
\* unchanged and the active mode afterwards is the mode that was updated
\* (the mode active before, or Quit if a window-close event was received);
\* the active mode changes only in a frame where an instruction was
\* returned or a window-close event was received.
C13_NoInstructionNoChange ==
    [][ /\ instr' = <<>> =>
             /\ registry' = registry
             /\ Len(contexts') = Len(contexts)
             /\ active' = (IF closed' THEN registry["Quit"] ELSE active)
        /\ active' # active => (instr' # <<>> \/ closed') ]_vars

\* C13 (witness): a second game frame has returned no instruction and the
\* game is still the active mode
C13_GameStays ==
    /\ ActiveKind = "Game"
    /\ instr = <<>>
    /\ ~closed
    /\ gframes = 2

\* C14: whatever the mode and the state, a frame on a batch leaves the
\* state that the same frame leaves on the batch without the key events the
\* mode does not recognize, and no error state is reached.
C14_UnrecognizedIgnored ==
    /\ status # "crashed"
    /\ result # <<>> => (World = result /\ result.status # "crashed")

\* C14 (witness): a game frame on a batch of two unrecognized key events,
\* with the bow charging, has been compared
C14_OtherKeysInGame ==
    /\ result # <<>>
    /\ probe = << KeyDown("K_a"), KeyUp("K_a") >>
    /\ ActiveKind = "Game"
    /\ bow.state = "Bent"

\* C15: in every game frame the bow's vertical position advances by its
\* velocity; the vertical velocity is inverted in the frame in which the
\* position reaches y = 0 or y = SCREEN_HEIGHT - bow height, so the bow
\* stays within the screen; only the Empty state sets the velocity to zero.
C15_BounceAtEdge ==
    [][ (gframes' = gframes + 1 /\ bow'.context = bow.context) =>
          /\ bow'.rect.y = bow.rect.y + bow.speed[2]
          /\ bow'.rect.x = bow.rect.x + bow.speed[1]
          /\ (bow'.rect.y \in {0, SCREEN_HEIGHT - BOW_IMG_HEIGHT}
                 /\ bow.speed # <<0, 0>> /\ bow'.speed # <<0, 0>>)
                => bow'.speed[2] = -bow.speed[2]
          /\ 0 <= bow'.rect.y
          /\ bow'.rect.y <= SCREEN_HEIGHT - BOW_IMG_HEIGHT
          /\ (bow'.speed = <<0, 0>> /\ bow.speed # <<0, 0>>)
                => bow'.state = "Empty" ]_vars

\* C16: a frame in which the bow shoots starts with the bow in state Bent,
\* creates exactly one arrow, whose horizontal speed is the force for the
\* accumulation time, takes exactly one from the ammo and leaves the bow in
\* Reload with the countdown at the cooldown threshold if ammo remains, in
\* Empty otherwise; the ammo changes in no other frame.
C16_ReleaseEffect ==
    [][ (gframes' = gframes + 1 /\ bow'.context = bow.context) =>
          IF fired' > 0
          THEN /\ bow.state = "Bent"
               /\ fired' = 1
               /\ Len(arrows') + Len(gone') = Len(arrows) + 1
               /\ bow'.ammo = bow.ammo - 1
               /\ bow'.ammo # 0 =>
                     (bow'.state = "Reload" /\ bow'.cooldown = TIME_COOLDOWN_FPS)
               /\ bow'.ammo = 0 => bow'.state = "Empty"
               /\ arrows' # <<>> =>
                     arrows'[Len(arrows')].speed = <<Force(bow'.bent_time), 0>>
          ELSE /\ bow'.ammo = bow.ammo
               /\ Len(arrows') + Len(gone') = Len(arrows) ]_vars

\* C17: the accumulation time is 0 when the bow enters Bent, grows by one
\* in each game frame the bow starts in Bent while it is below the charge
\* threshold, and never exceeds the threshold; the horizontal speed of
\* every arrow created lies in [FORCE_MIN, FORCE_MAX].
C17_ChargeClamped ==
    [][ (gframes' = gframes + 1 /\ bow'.context = bow.context) =>
          /\ (bow.state # "Bent" /\ bow'.state = "Bent") => bow'.bent_time = 0
          /\ bow.state = "Bent" =>
                bow'.bent_time = (IF bow.bent_time < TIME_FORCE_FPS
                                  THEN bow.bent_time + 1 ELSE bow.bent_time)
          /\ bow'.bent_time <= TIME_FORCE_FPS
          /\ \A i \in 1..Len(arrows') :
                /\ FORCE_MIN * TIME_FORCE_FPS <= arrows'[i].speed[1]
                /\ arrows'[i].speed[1] <= FORCE_MAX * TIME_FORCE_FPS
          /\ \A i \in 1..Len(gone') :
                \/ gone'[i].speed = <<0, 0>>
                \/ /\ FORCE_MIN * TIME_FORCE_FPS <= gone'[i].speed[1]
                   /\ gone'[i].speed[1] <= FORCE_MAX * TIME_FORCE_FPS ]_vars

\* C17 (witness): the key was held for two frames more than the threshold
\* and the arrow released then has the speed FORCE_MAX
C17_HeldBeyondThreshold ==
    /\ gframes = 4
    /\ fired = 1
    /\ bow.bent_time = TIME_FORCE_FPS
    /\ arrows # <<>>
    /\ arrows[Len(arrows)].speed = <<FORCE_MAX * TIME_FORCE_FPS, 0>>

\* C18: the bow enters Reload with the countdown at TIME_COOLDOWN_FPS; in
\* every game frame it starts in Reload the countdown goes down by one and
\* the input is ignored (no arrow, no ammo change, no state change but the
\* end of Reload); the bow is in Normal at the end of the frame in which the
\* countdown reaches zero, which is the TIME_COOLDOWN_FPS-th frame; while
\* the game stays active Reload eventually ends.
C18_ReloadLasts ==
    /\ [][ /\ gframes = 0 => bow.cooldown = TIME_COOLDOWN_FPS
           /\ (bow.state = "Reload" /\ gframes' = gframes + 1) =>
                 /\ bow'.cooldown = bow.cooldown - 1
                 /\ bow'.ammo = bow.ammo
                 /\ fired' = 0
                 /\ Len(arrows') + Len(gone') = Len(arrows)
                 /\ bow'.bent_time = bow.bent_time
                 /\ bow'.state = (IF bow'.cooldown = 0 THEN "Normal" ELSE "Reload")
                 /\ bow'.state = "Normal" <=> gframes' = TIME_COOLDOWN_FPS ]_vars
    /\ (bow.state = "Reload" /\ ActiveKind = "Game")
          ~> (bow.state = "Normal" \/ ActiveKind # "Game")

\* C18 (witness): the bow is back in Normal, TIME_COOLDOWN_FPS game frames
\* after it entered Reload
C18_ReloadOver ==
    /\ bow.state = "Normal"
    /\ bow.cooldown = 0
    /\ gframes = TIME_COOLDOWN_FPS
    /\ ActiveKind = "Game"

\* C19: in a frame that starts with Pause or the main menu active the bow
\* (position, velocity, state, accumulation time, countdown, ammo), the
\* live arrows and every session's score do not change, unless the frame
\* handles "Game New", which puts the bow of a new session in place of the
\* old one; "Game Switch" from Pause activates the session of that bow,
\* the one that was paused, as the pause left it.
C19_PauseFreezes ==
    [][ (ActiveKind = "Pause" \/ ActiveKind = "MainMenu") =>
          /\ arrows' = arrows
          /\ hits' = <<>> /\ gone' = <<>> /\ fired' = 0
          /\ gframes' = gframes
          /\ \A c \in GameIds : contexts'[c] = contexts[c]
          /\ instr' # <<"Game", "New">> => bow' = bow
          /\ instr' = <<"Game", "New">> => bow'.context \notin GameIds
          /\ instr' = <<"Game", "Switch">> =>
                /\ ActiveKind = "Pause"
                /\ active' = registry["Game"]
                /\ active' = bow.context
                /\ registry' = registry ]_vars

\* C19 (witness): a session paused in the frame of a shot has been resumed
\* with its bow in Reload and its arrow in flight
C19_Resumed ==
    /\ instr = <<"Game", "Switch">>
    /\ ActiveKind = "Game"
    /\ active = bow.context
    /\ bow.state = "Reload"
    /\ bow.cooldown = TIME_COOLDOWN_FPS
    /\ Len(arrows) = 1

\* C20: the program never reaches the error of an unknown mode or action
\* and the active mode is never absent; every instruction handled names one
\* of Game, Menu, Pause, Quit and the action Switch or New, and the mode
\* active afterwards is the instance the registry holds for that name (so
\* "Game Switch" is only issued when the Game entry holds an instance);
\* Pause is only active when a game exists.
C20_InstructionsResolve ==
    /\ status # "crashed"
    /\ active \in 1..Len(contexts)
    /\ \A n \in Names \ {"Game"} : registry[n] \in 1..Len(contexts)
    /\ ActiveKind = "Pause" => registry["Game"] \in 1..Len(contexts)
    /\ instr # <<>> =>
          /\ instr[1] \in Names
          /\ instr[2] \in {"Switch", "New"}
          /\ registry[instr[1]] \in 1..Len(contexts)
          /\ active = registry[instr[1]]
          /\ contexts[active].kind = ContClass(instr[1])

\* C20 (witness): "Game Switch" has been handled in the second session
C20_SecondGameResumed ==
    /\ instr = <<"Game", "Switch">>
    /\ games = 2
    /\ active = registry["Game"]
    /\ contexts[active].kind = "Game"

\* the arrows of the sequence as that were fired in session c
FiredIn(as, c) == Cardinality({i \in 1..Len(as) : as[i].context = c})

\* C21: a session's bow starts with AMMO_MAX ammo and no arrow fired; in
\* every frame of the session the ammo goes down by exactly the number of
\* arrows the bow fires in that frame and never goes up, so the ammo plus
\* the number of arrows fired since the session began is always AMMO_MAX.
C21_AmmoPlusFired ==
    [][ /\ bow'.context # bow.context =>
             /\ bow'.ammo = AMMO_MAX
             /\ fired' = 0
             /\ FiredIn(arrows', bow'.context) = 0
        /\ (bow'.context = bow.context /\ bow.context # 0) =>
             /\ bow'.ammo = bow.ammo - fired'
             /\ bow'.ammo <= bow.ammo
             /\ FiredIn(arrows', bow.context) + FiredIn(gone', bow.context)
                   = FiredIn(arrows, bow.context) + fired' ]_vars

\* C21 (witness): the bow of a second session has fired two arrows, and its
\* ammo is AMMO_MAX - 2
C21_TwoFired ==
    /\ games = 2
    /\ fired = 2
    /\ bow.ammo = AMMO_MAX - 2
    /\ FiredIn(arrows, bow.context) = 2

\* whether the vertical extents of the arrow's hitbox and of r overlap
VOverlap(a, r) == a.hitbox.y < r.y + r.h /\ a.hitbox.y + a.hitbox.h > r.y

\* the zone an arrow flying at that height is due to report, -1 if none
DueZone(a) ==
    IF VOverlap(a, a.target[1]) THEN 0
    ELSE IF VOverlap(a, a.target[2]) THEN 1
    ELSE IF VOverlap(a, a.target[3]) THEN 2
    ELSE -1

\* C22: for every whole speed in FORCE_MIN..FORCE_MAX and every height the
\* bow shoots from, an arrow does not pass through the target: an arrow
\* still flying whose hitbox is level with a zone has not reached that
\* zone yet, and an arrow that stops flying has reported the inner zone if
\* its hitbox is level with it, else the middle zone if level with it, else
\* the outer zone if level with it, and only otherwise has left the screen
\* without a score.
C22_NoPassThrough ==
    [][ /\ \A i \in 1..Len(arrows') :
             DueZone(arrows'[i]) # -1 =>
                arrows'[i].hitbox.x + arrows'[i].hitbox.w
                   <= arrows'[i].target[DueZone(arrows'[i]) + 1].x
        /\ \A j \in 1..Len(gone') :
             /\ DueZone(gone'[j]) # -1 =>
                   /\ \E i \in 1..Len(hits') :
                         /\ hits'[i].arrow = gone'[j]
                         /\ hits'[i].zone = DueZone(gone'[j])
                   /\ contexts'[gone'[j].context].score
                         = contexts[gone'[j].context].score
                             + (3 - DueZone(gone'[j]))
             /\ DueZone(gone'[j]) = -1 =>
                   /\ OutOfBounds(gone'[j])
                   /\ hits' = <<>>
                   /\ contexts' = contexts ]_vars

\* C22 (witness): an arrow of speed FORCE_MAX, level with the outer zone
\* only, has hit it
C22_FastOuterHit ==
    /\ Len(hits) = 1
    /\ hits[1].zone = 2
    /\ hits[1].arrow.rect.x - BOW_POS_INIT.x >= FORCE_MAX
    /\ (hits[1].arrow.rect.x - BOW_POS_INIT.x) % FORCE_MAX = 0
    /\ contexts[hits[1].arrow.context].score = 1

IsMenu(c) == c.kind = "MainMenu" \/ c.kind = "Pause"

IsKeyDown(e, key) == e.type = "KEYDOWN" /\ e.key = key

\* the index of the first confirm of the batch, Len(events) + 1 if none
FirstConfirm(events) ==
    IF \E i \in 1..Len(events) : IsKeyDown(events[i], "K_RETURN")
    THEN CHOOSE i \in 1..Len(events) :
           /\ IsKeyDown(events[i], "K_RETURN")
           /\ \A j \in 1..(i - 1) : ~IsKeyDown(events[j], "K_RETURN")
    ELSE Len(events) + 1

\* the cursor c of a menu of n options moved by one event
Moved(c, n, e) ==
    IF IsKeyDown(e, "K_DOWN") THEN (IF c = n - 1 THEN 0 ELSE c + 1)
    ELSE IF IsKeyDown(e, "K_UP") THEN (IF c = 0 THEN n - 1 ELSE c - 1)
    ELSE c

\* the cursor c moved by the first k events of the batch
RECURSIVE Positioned(_, _, _, _)
Positioned(c, n, events, k) ==
    IF k = 0 THEN c
    ELSE Moved(Positioned(c, n, events, k - 1), n, events[k])

\* C23: the cursor of every menu indexes one of its options. In a frame
\* that updates a menu, the cursor ends where the downs and ups before the
\* first confirm of the batch put it, one option each with wrap-around at
\* both ends; a confirm returns the instruction of the option then under
\* the cursor, and the events after it reach no context. A menu that is
\* not updated keeps its cursor, and the Menu and Pause entries keep their
\* instances, so a menu activated again has the cursor where it was left.
C23_CursorAndConfirm ==
    [][ /\ \A c \in 1..Len(contexts') :
             IsMenu(contexts'[c]) =>
                /\ contexts'[c].cursor >= 0
                /\ contexts'[c].cursor < Len(Options(contexts'[c].kind))
        /\ (IsMenu(contexts[active]) /\ ~closed') =>
             /\ contexts'[active].cursor
                   = Positioned(contexts[active].cursor,
                                Len(Options(contexts[active].kind)),
                                probe', FirstConfirm(probe') - 1)
             /\ instr' = IF FirstConfirm(probe') <= Len(probe')
                            THEN Options(contexts[active].kind)
                                    [contexts'[active].cursor + 1]
                            ELSE <<>>
             /\ arrows' = arrows
             /\ fired' = 0
             /\ bow' = IF instr' = <<"Game", "New">>
                           THEN BowNew(Len(contexts')) ELSE bow
        /\ \A c \in 1..Len(contexts) :
             (IsMenu(contexts[c]) /\ (c # active \/ closed')) =>
                contexts'[c] = contexts[c]
        /\ registry'["Menu"] = registry["Menu"]
        /\ registry'["Pause"] = registry["Pause"] ]_vars

\* C23 (witness): in the second session the pause menu, left with the
\* cursor on its second option, has been activated again, moved to its
\* last option, and then by a down and a confirm in one batch wrapped to
\* its first option, whose instruction came back
C23_WrappedAndConfirmed ==
    /\ games = 2
    /\ probe = <<KeyDown("K_DOWN"), KeyDown("K_RETURN")>>
    /\ instr = <<"Game", "Switch">>
    /\ ActiveKind = "Game"
    /\ contexts[registry["Pause"]].cursor = 0

====
